---- MODULE Spec2Model ----
(***************************************************************************)
(* StoryBranch backend: the story graph validator and the publish /        *)
(* versioning lifecycle (services/story.service.ts, choice.service.ts,     *)
(* node.service.ts, story-version.service.ts, prisma schema).              *)
(*                                                                         *)
(* The database is modelled as four tables (stories, nodes, choices,       *)
(* versions) kept in insertion order.  A publish call is a process whose   *)
(* awaits are separate steps; every other request is one step.             *)
(***************************************************************************)
EXTENDS Integers, Sequences, FiniteSets, TLC

\* ------------------------------------------------------------------ bounds
MaxClock == 2
MaxNodes == 1
MaxChoices == 1
MaxCraft == 2
GraphNodes == 2
GraphChoices == 2

StoryIds == {"s1"}
Pids == {1, 2}
Titles == {"t1"}
Notes == {""}

\* ------------------------------------------------------- metadata (Json maps)
EmptyMap == [k \in {} |-> 0]

Has(m, k) == k \in DOMAIN m

\* { ...a, ...b }
Spread(a, b) == b @@ a

\* JSON serialisation drops keys whose value is undefined
DropKey(m, key) == [k \in DOMAIN m \ {key} |-> m[k]]

\* m.k used as a condition, k holding a number: undefined and 0 are falsy
Truthy(m, k) == Has(m, k) /\ m[k] # 0

\* m.k used as a condition, k holding a boolean: undefined and false are falsy
TruthyFlag(m, k) == Has(m, k) /\ m[k]

\* the value of a number that is not a number (undefined + 1)
NaN == -1

\* ------------------------------------------------------------ sequences
RECURSIVE SeqFilterIds(_, _)
\* nodes.filter(pred).map(node => node.id), pred given as the set of ids it keeps
SeqFilterIds(ns, keep) ==
  IF ns = <<>> THEN <<>>
  ELSE IF Head(ns).id \in keep
       THEN <<Head(ns).id>> \o SeqFilterIds(Tail(ns), keep)
       ELSE SeqFilterIds(Tail(ns), keep)

RECURSIVE SelectRows(_, _)
\* rows of a table (insertion order) whose index is in keep
SelectRows(t, keep) ==
  IF t = <<>> THEN <<>>
  ELSE SelectRows(SubSeq(t, 1, Len(t) - 1), keep)
       \o (IF Len(t) \in keep THEN <<t[Len(t)]>> ELSE <<>>)

\* ------------------------------------------------------- graph validator
\* nodes.find(node => node.metadata.isStart === true): index of the first
\* start node, 0 when there is none
StartIndex(ns) ==
  IF \E i \in DOMAIN ns : ns[i].isStart
  THEN CHOOSE i \in DOMAIN ns : ns[i].isStart /\ \A j \in 1..(i - 1) : ~ns[j].isStart
  ELSE 0

\* node.sourceChoices of the include
SourceChoices(cs, nodeId) == SelectRows(cs, {i \in DOMAIN cs : cs[i].sourceNodeId = nodeId})

\* node.targetChoices of the include
TargetChoices(cs, nodeId) == SelectRows(cs, {i \in DOMAIN cs : cs[i].targetNodeId = nodeId})

RECURSIVE VisitChoicesUnguarded(_, _, _)
\* the for loop without the reachableNodes.has test: every target is queued
VisitChoicesUnguarded(out, queue, reach) ==
  IF out = <<>> THEN <<queue, reach>>
  ELSE VisitChoicesUnguarded(Tail(out), Append(queue, Head(out).targetNodeId),
                             reach \cup {Head(out).targetNodeId})

RECURSIVE VisitChoices(_, _, _)
\* the for loop over currentNode.sourceChoices: <<queue, reachable>> afterwards
VisitChoices(out, queue, reach) ==
  IF out = <<>> THEN <<queue, reach>>
  ELSE IF Head(out).targetNodeId \notin reach
       THEN VisitChoices(Tail(out), Append(queue, Head(out).targetNodeId),
                         reach \cup {Head(out).targetNodeId})
       ELSE VisitChoices(Tail(out), queue, reach)

\* one iteration of the while loop: queue.shift() and the visit of the
\* node's outgoing choices; <<queue, reachable>> afterwards
BfsIteration(queue, reach, ns, cs) ==
  LET cur == Head(queue)
      found == \E i \in DOMAIN ns : ns[i].id = cur
  IN IF found THEN VisitChoices(SourceChoices(cs, cur), Tail(queue), reach)
     ELSE <<Tail(queue), reach>>

RECURSIVE BFS(_, _, _, _)
\* the while loop over the queue
BFS(queue, reach, ns, cs) ==
  IF queue = <<>> THEN reach
  ELSE LET r == BfsIteration(queue, reach, ns, cs)
       IN BFS(r[1], r[2], ns, cs)

\* const queue = [startNode.id], when there is a start node
StartQueue(ns) == IF StartIndex(ns) # 0 THEN <<ns[StartIndex(ns)].id>> ELSE <<>>

\* the start node is queued and not marked reachable
StartReachEmpty(ns) == {}

\* reachableNodes.add(startNode.id), when there is a start node
StartReach(ns) == IF StartIndex(ns) # 0 THEN {ns[StartIndex(ns)].id} ELSE {}

ReachableNodes(ns, cs) == BFS(StartQueue(ns), StartReach(ns), ns, cs)

\* isValid without the ending-node flag
IsValidWithoutEnding(hasStart, hasEnding, orphaned, unreachable, deadEnds) ==
  /\ hasStart
  /\ Len(orphaned) = 0
  /\ Len(unreachable) = 0
  /\ Len(deadEnds) = 0

IsValid(hasStart, hasEnding, orphaned, unreachable, deadEnds) ==
  /\ hasStart
  /\ hasEnding
  /\ Len(orphaned) = 0
  /\ Len(unreachable) = 0
  /\ Len(deadEnds) = 0

\* the result for a story without nodes
EmptyStoryResult ==
  [isValid |-> FALSE, startNode |-> FALSE, endingNodes |-> FALSE,
   orphanedNodes |-> <<>>, unreachableNodes |-> <<>>, deadEnds |-> <<>>]

\* the result with an orphan filter that does not exempt the start node
ValidationResultOrphanedStart(ns, cs, reach) ==
  LET hasStart == StartIndex(ns) # 0
      hasEnding == \E i \in DOMAIN ns : ns[i].isEnding
      orphaned == SeqFilterIds(ns, {ns[i].id : i \in {j \in DOMAIN ns :
                     Len(TargetChoices(cs, ns[j].id)) = 0}})
      unreachable == SeqFilterIds(ns, {ns[i].id : i \in {j \in DOMAIN ns :
                     ns[j].id \notin reach}})
      deadEnds == SeqFilterIds(ns, {ns[i].id : i \in {j \in DOMAIN ns :
                     ~ns[j].isEnding /\ Len(SourceChoices(cs, ns[j].id)) = 0}})
  IN [isValid |-> IsValid(hasStart, hasEnding, orphaned, unreachable, deadEnds),
      startNode |-> hasStart, endingNodes |-> hasEnding,
      orphanedNodes |-> orphaned, unreachableNodes |-> unreachable,
      deadEnds |-> deadEnds]

\* the result for a story with nodes, reach being the set the traversal marked
ValidationResult(ns, cs, reach) ==
  LET hasStart == StartIndex(ns) # 0
      hasEnding == \E i \in DOMAIN ns : ns[i].isEnding
      orphaned == SeqFilterIds(ns, {ns[i].id : i \in {j \in DOMAIN ns :
                     Len(TargetChoices(cs, ns[j].id)) = 0 /\ ~ns[j].isStart}})
      unreachable == SeqFilterIds(ns, {ns[i].id : i \in {j \in DOMAIN ns :
                     ns[j].id \notin reach}})
      deadEnds == SeqFilterIds(ns, {ns[i].id : i \in {j \in DOMAIN ns :
                     ~ns[j].isEnding /\ Len(SourceChoices(cs, ns[j].id)) = 0}})
  IN [isValid |-> IsValid(hasStart, hasEnding, orphaned, unreachable, deadEnds),
      startNode |-> hasStart, endingNodes |-> hasEnding,
      orphanedNodes |-> orphaned, unreachableNodes |-> unreachable,
      deadEnds |-> deadEnds]

\* ChoiceService.validateStoryStructure on the rows of one story
ValidateStructure(ns, cs) ==
  IF Len(ns) = 0 THEN EmptyStoryResult
  ELSE ValidationResult(ns, cs, ReachableNodes(ns, cs))

\* the message without the sentence on dead ends
ViolationMessageWithoutDeadEnds(v) ==
  (IF ~v.startNode THEN <<[check |-> "Missing start node", count |-> 0]>> ELSE <<>>)
  \o (IF ~v.endingNodes THEN <<[check |-> "Missing ending nodes", count |-> 0]>> ELSE <<>>)
  \o (IF Len(v.orphanedNodes) > 0
      THEN <<[check |-> "orphaned nodes", count |-> Len(v.orphanedNodes)]>> ELSE <<>>)
  \o (IF Len(v.unreachableNodes) > 0
      THEN <<[check |-> "unreachable nodes", count |-> Len(v.unreachableNodes)]>> ELSE <<>>)

\* the message of StoryService.validateStoryForPublishing: the sentences it
\* appends, in order, each with the count it prints (0 for the two flags)
ViolationMessage(v) ==
  (IF ~v.startNode THEN <<[check |-> "Missing start node", count |-> 0]>> ELSE <<>>)
  \o (IF ~v.endingNodes THEN <<[check |-> "Missing ending nodes", count |-> 0]>> ELSE <<>>)
  \o (IF Len(v.orphanedNodes) > 0
      THEN <<[check |-> "orphaned nodes", count |-> Len(v.orphanedNodes)]>> ELSE <<>>)
  \o (IF Len(v.unreachableNodes) > 0
      THEN <<[check |-> "unreachable nodes", count |-> Len(v.unreachableNodes)]>> ELSE <<>>)
  \o (IF Len(v.deadEnds) > 0
      THEN <<[check |-> "dead ends", count |-> Len(v.deadEnds)]>> ELSE <<>>)

\* -------------------------------------------------------------------- state
VARIABLES stories, usedIds, nodes, nextNodeId, choices, nextChoiceId,
          versions, now, pub

vars == <<stories, usedIds, nodes, nextNodeId, choices, nextChoiceId,
          versions, now, pub>>

Statuses == {"DRAFT", "PUBLISHED", "ARCHIVED"}

\* metadata maps a client can send: the free-form map may carry the keys the
\* lifecycle uses
MetaPayloads ==
  {EmptyMap}
  \cup {("isEditingNewVersion" :> TRUE) @@ ("draftVersion" :> k) : k \in 1..MaxCraft}

\* request bodies of PUT /stories/:id as StoryController.updateStory hands them
\* to the service; title stands for the narrative fields, "" for a field that
\* is not sent; an empty body is rejected by the controller
UpdatePayloads ==
  {d \in [title : Titles \cup {""}, status : Statuses \cup {""},
          hasMetadata : BOOLEAN, metadata : MetaPayloads] :
     /\ (d.title # "" \/ d.status # "" \/ d.hasMetadata)
     /\ (~d.hasMetadata => d.metadata = EmptyMap)}

NoRow == [status |-> "DRAFT", title |-> "t1", publishedAt |-> 0, metadata |-> EmptyMap]

NoSnapshot == [story |-> NoRow, nodes |-> <<>>]

NoResult == [status |-> 0, error |-> "", violations |-> <<>>]

\* a request in flight: the publish calls use story .. pending; the structure
\* validation uses ns, cs (the rows it read), queue, reach, the result in
\* validation, and enqueued, the log of every id pushed on the queue
Idle == [pc |-> "idle", op |-> "", id |-> "s1", story |-> NoRow, snapshot |-> NoSnapshot,
         versionNumber |-> 0, notes |-> "", pending |-> NoRow, result |-> NoResult,
         ns |-> <<>>, cs |-> <<>>, queue |-> <<>>, reach |-> {}, enqueued |-> <<>>,
         validation |-> EmptyStoryResult]

Init ==
  /\ stories = EmptyMap
  /\ usedIds = {}
  /\ nodes = <<>>
  /\ nextNodeId = 1
  /\ choices = <<>>
  /\ nextChoiceId = 1
  /\ versions = <<>>
  /\ now = 1
  /\ pub = [p \in Pids |-> Idle]

\* --------------------------------------------------------------- queries
\* prisma.node.findMany({ where: { storyId } })
NodesOf(id) == SelectRows(nodes, {i \in DOMAIN nodes : nodes[i].storyId = id})

VersionsOf(id) == SelectRows(versions, {i \in DOMAIN versions : versions[i].storyId = id})

VersionNumbers(id) == {versions[i].versionNumber : i \in {j \in DOMAIN versions : versions[j].storyId = id}}

\* StoryVersionService.getLatestVersion: 0 stands for null
LatestVersionNumber(id) ==
  IF VersionNumbers(id) = {} THEN 0
  ELSE CHOOSE n \in VersionNumbers(id) : \A m \in VersionNumbers(id) : m <= n

\* a publish transaction has updated the story row and not yet ended: the row
\* is locked against other writers
Locked(id) == \E p \in Pids : pub[p].pc = "txInsert" /\ pub[p].id = id

\* ------------------------------------------------------- story operations
\* StoryService.createStory
CreateStory(id, title, md) ==
  /\ id \notin usedIds
  /\ usedIds' = usedIds \cup {id}
  /\ stories' = (id :> [status |-> "DRAFT", title |-> title, publishedAt |-> 0,
                        metadata |-> md]) @@ stories
  /\ UNCHANGED <<nodes, nextNodeId, choices, nextChoiceId, versions, now, pub>>

\* the versioning branch is taken for any body
UpdatesAnything(data) == TRUE

\* updateStory: data.title || data.description || data.coverImageUrl !==
\* undefined || data.genres || data.difficulty
UpdatesContent(data) == data.title # ""

\* the row written by StoryService.updateStory
UpdatedStory(story, data) ==
  IF story.status = "PUBLISHED" /\ UpdatesContent(data)
  THEN LET metadata == story.metadata
           currentVersion == IF Truthy(metadata, "currentVersion")
                             THEN metadata["currentVersion"] ELSE 1
           updatedMetadata == Spread(metadata,
                                ("isEditingNewVersion" :> TRUE)
                                @@ ("draftVersion" :> (currentVersion + 1)))
       IN [story EXCEPT !.title = data.title, !.status = "DRAFT",
                        !.metadata = updatedMetadata]
  ELSE [story EXCEPT
          !.title = IF data.title # "" THEN data.title ELSE @,
          !.status = IF data.status # "" THEN data.status ELSE @,
          !.metadata = IF data.hasMetadata THEN data.metadata ELSE @]

\* StoryService.updateStory
UpdateStory(id, data) ==
  /\ id \in DOMAIN stories
  /\ ~Locked(id)
  /\ stories' = [stories EXCEPT ![id] = UpdatedStory(stories[id], data)]
  /\ UNCHANGED <<usedIds, nodes, nextNodeId, choices, nextChoiceId, versions, now, pub>>

\* StoryService.archiveStory
ArchiveStory(id) ==
  /\ id \in DOMAIN stories
  /\ ~Locked(id)
  /\ stories' = [stories EXCEPT ![id].status = "ARCHIVED"]
  /\ UNCHANGED <<usedIds, nodes, nextNodeId, choices, nextChoiceId, versions, now, pub>>

\* StoryService.deleteStory with the ON DELETE CASCADE of nodes, choices and
\* story_versions
DeleteStory(id) ==
  /\ id \in DOMAIN stories
  /\ ~Locked(id)
  /\ stories' = [k \in DOMAIN stories \ {id} |-> stories[k]]
  /\ nodes' = SelectRows(nodes, {i \in DOMAIN nodes : nodes[i].storyId # id})
  /\ choices' = SelectRows(choices, {i \in DOMAIN choices :
        \A j \in DOMAIN nodes : (nodes[j].id \in {choices[i].sourceNodeId, choices[i].targetNodeId})
                                  => nodes[j].storyId # id})
  /\ versions' = SelectRows(versions, {i \in DOMAIN versions : versions[i].storyId # id})
  /\ UNCHANGED <<usedIds, nextNodeId, nextChoiceId, now, pub>>

\* ------------------------------------------------ node and choice requests
NodeExists(nid) == \E i \in DOMAIN nodes : nodes[i].id = nid

NodeRow(nid) == nodes[CHOOSE i \in DOMAIN nodes : nodes[i].id = nid]

\* NodeController.createNode / NodeService.createNode
CreateNode(storyId, isEnding, isStart) ==
  /\ storyId \in DOMAIN stories
  /\ nextNodeId <= MaxNodes
  /\ nodes' = Append(nodes, [id |-> nextNodeId, storyId |-> storyId,
                             isEnding |-> isEnding, isStart |-> isStart])
  /\ nextNodeId' = nextNodeId + 1
  /\ UNCHANGED <<stories, usedIds, choices, nextChoiceId, versions, now, pub>>

\* NodeController.updateNode / NodeService.updateNode
UpdateNode(nid, isEnding, isStart) ==
  /\ NodeExists(nid)
  /\ nodes' = [i \in DOMAIN nodes |->
                 IF nodes[i].id = nid
                 THEN [nodes[i] EXCEPT !.isEnding = isEnding, !.isStart = isStart]
                 ELSE nodes[i]]
  /\ UNCHANGED <<stories, usedIds, nextNodeId, choices, nextChoiceId, versions, now, pub>>

\* NodeController.deleteNode / NodeService.deleteNode with the ON DELETE
\* CASCADE of the choices that have the node as source or target
DeleteNode(nid) ==
  /\ NodeExists(nid)
  /\ nodes' = SelectRows(nodes, {i \in DOMAIN nodes : nodes[i].id # nid})
  /\ choices' = SelectRows(choices, {i \in DOMAIN choices :
                    choices[i].sourceNodeId # nid /\ choices[i].targetNodeId # nid})
  /\ UNCHANGED <<stories, usedIds, nextNodeId, nextChoiceId, versions, now, pub>>

\* createChoice without the test that the target node is of the same story
CreateChoiceAnyStory(sourceNodeId, targetNodeId) ==
  /\ NodeExists(sourceNodeId)
  /\ NodeExists(targetNodeId)
  /\ nextChoiceId <= MaxChoices
  /\ choices' = Append(choices, [id |-> nextChoiceId, sourceNodeId |-> sourceNodeId,
                                 targetNodeId |-> targetNodeId])
  /\ nextChoiceId' = nextChoiceId + 1
  /\ UNCHANGED <<stories, usedIds, nodes, nextNodeId, versions, now, pub>>

\* ChoiceController.createChoice / ChoiceService.createChoice
CreateChoice(sourceNodeId, targetNodeId) ==
  /\ NodeExists(sourceNodeId)
  /\ NodeExists(targetNodeId)
  /\ NodeRow(targetNodeId).storyId = NodeRow(sourceNodeId).storyId
  /\ nextChoiceId <= MaxChoices
  /\ choices' = Append(choices, [id |-> nextChoiceId, sourceNodeId |-> sourceNodeId,
                                 targetNodeId |-> targetNodeId])
  /\ nextChoiceId' = nextChoiceId + 1
  /\ UNCHANGED <<stories, usedIds, nodes, nextNodeId, versions, now, pub>>

\* ChoiceController.updateChoice / ChoiceService.updateChoice
UpdateChoice(cid, targetNodeId) ==
  /\ \E i \in DOMAIN choices : choices[i].id = cid
  /\ NodeExists(targetNodeId)
  /\ \A i \in DOMAIN choices : choices[i].id = cid =>
        NodeRow(targetNodeId).storyId = NodeRow(choices[i].sourceNodeId).storyId
  /\ choices' = [i \in DOMAIN choices |->
                   IF choices[i].id = cid
                   THEN [choices[i] EXCEPT !.targetNodeId = targetNodeId]
                   ELSE choices[i]]
  /\ UNCHANGED <<stories, usedIds, nodes, nextNodeId, nextChoiceId, versions, now, pub>>

\* ChoiceController.deleteChoice / ChoiceService.deleteChoice
DeleteChoice(cid) ==
  /\ \E i \in DOMAIN choices : choices[i].id = cid
  /\ choices' = SelectRows(choices, {i \in DOMAIN choices : choices[i].id # cid})
  /\ UNCHANGED <<stories, usedIds, nodes, nextNodeId, nextChoiceId, versions, now, pub>>

\* ---------------------------------------------------------- publish calls
\* the AppErrors the publish calls raise, by HTTP status and message
NotFound == [status |-> 404, error |-> "Story not found", violations |-> <<>>]

AlreadyPublished == [status |-> 400, error |-> "Story is already published", violations |-> <<>>]

NotNewVersionDraft ==
  [status |-> 400,
   error |-> "Story must be a draft of a new version to publish as a new version",
   violations |-> <<>>]

ValidationFailed(v) ==
  [status |-> 400, error |-> "Story structure validation failed:",
   violations |-> ViolationMessage(v)]

PublishFailed(op) ==
  [status |-> 500,
   error |-> IF op = "publishStory" THEN "Failed to publish story"
             ELSE "Failed to publish new story version",
   violations |-> <<>>]

Published == [status |-> 200, error |-> "", violations |-> <<>>]

DbUnchanged == UNCHANGED <<stories, usedIds, nodes, nextNodeId, choices, nextChoiceId, versions, now>>

\* the call returns or throws: its outcome is ready for the caller
Finish(p, op, id, res) ==
  pub' = [pub EXCEPT ![p] = [Idle EXCEPT !.pc = "done", !.op = op, !.id = id, !.result = res]]

\* StoryController.publishStory sends the response (or next(error))
Return(p) ==
  /\ pub[p].pc = "done"
  /\ pub' = [pub EXCEPT ![p] = Idle]
  /\ DbUnchanged

\* ------------------------------------------- structure validation request
Validated == [status |-> 200, error |-> "", violations |-> <<>>]

\* ChoiceController.validateStoryStructure: getStoryById, then the service
\* reads the story's nodes with their choices; a story without nodes is
\* answered at once, else the traversal starts
ValidateStructureCall(p, id) ==
  /\ pub[p].pc = "idle"
  /\ IF id \notin DOMAIN stories THEN Finish(p, "validateStoryStructure", id, NotFound)
     ELSE IF Len(NodesOf(id)) = 0
     THEN pub' = [pub EXCEPT ![p] = [Idle EXCEPT !.pc = "done", !.op = "validateStoryStructure",
                                                 !.id = id, !.result = Validated,
                                                 !.ns = <<>>, !.cs = choices,
                                                 !.validation = EmptyStoryResult]]
     ELSE pub' = [pub EXCEPT ![p] = [Idle EXCEPT !.pc = "bfs", !.op = "validateStoryStructure",
                                                 !.id = id, !.ns = NodesOf(id), !.cs = choices,
                                                 !.queue = StartQueue(NodesOf(id)),
                                                 !.reach = StartReach(NodesOf(id)),
                                                 !.enqueued = StartQueue(NodesOf(id))]]
  /\ DbUnchanged

\* one iteration of while (queue.length > 0)
BfsStep(p) ==
  /\ pub[p].pc = "bfs"
  /\ pub[p].queue # <<>>
  /\ LET r == BfsIteration(pub[p].queue, pub[p].reach, pub[p].ns, pub[p].cs)
         pushed == SubSeq(r[1], Len(pub[p].queue), Len(r[1]))
     IN pub' = [pub EXCEPT ![p].queue = r[1], ![p].reach = r[2],
                           ![p].enqueued = pub[p].enqueued \o pushed]
  /\ DbUnchanged

\* the queue is empty: the lists and isValid are computed and returned
BfsEnd(p) ==
  /\ pub[p].pc = "bfs"
  /\ pub[p].queue = <<>>
  /\ pub' = [pub EXCEPT ![p].pc = "done", ![p].result = Validated,
                        ![p].validation = ValidationResult(pub[p].ns, pub[p].cs, pub[p].reach)]
  /\ DbUnchanged

\* --------------------------------------------- validation before publishing
\* the body of the 200 response: {isValid, validationResult, message}, the
\* message present only when the structure is not valid
ForPublishing(v) ==
  [status |-> 200,
   error |-> IF v.isValid THEN "" ELSE "Story structure validation failed:",
   violations |-> IF v.isValid THEN <<>> ELSE ViolationMessage(v)]

\* StoryController.validateStoryForPublishing: getStoryById, then
\* StoryService.validateStoryForPublishing on the story's rows
ValidateStoryForPublishing(p, id) ==
  /\ pub[p].pc = "idle"
  /\ IF id \notin DOMAIN stories THEN Finish(p, "validateStoryForPublishing", id, NotFound)
     ELSE LET v == ValidateStructure(NodesOf(id), choices)
          IN pub' = [pub EXCEPT ![p] = [Idle EXCEPT !.pc = "done",
                                                   !.op = "validateStoryForPublishing",
                                                   !.id = id, !.result = ForPublishing(v),
                                                   !.ns = NodesOf(id), !.cs = choices,
                                                   !.validation = v]]
  /\ DbUnchanged

\* ------------------------------------------------------------ publish calls
\* publishStory: the check was dropped for stories that are not archived
IsAlreadyPublishedArchivedOnly(story) == story.status = "ARCHIVED"

\* publishStory: story.status === StoryStatus.PUBLISHED
IsAlreadyPublished(story) == story.status = "PUBLISHED"

\* publishStory: getStoryById and the already-published check
PublishStoryCall(p, id) ==
  /\ pub[p].pc = "idle"
  /\ IF id \notin DOMAIN stories THEN Finish(p, "publishStory", id, NotFound)
     ELSE IF IsAlreadyPublished(stories[id]) THEN Finish(p, "publishStory", id, AlreadyPublished)
     ELSE pub' = [pub EXCEPT ![p] = [Idle EXCEPT !.pc = "validate", !.op = "publishStory",
                                                 !.id = id, !.story = stories[id]]]
  /\ DbUnchanged

\* publishNewVersion: the check looks at the overlay flag only
NotNewVersionDraftFlagOnly(story) == ~TruthyFlag(story.metadata, "isEditingNewVersion")

\* publishNewVersion: story.status !== DRAFT || !metadata.isEditingNewVersion
IsNotNewVersionDraft(story) ==
  story.status # "DRAFT" \/ ~TruthyFlag(story.metadata, "isEditingNewVersion")

\* publishNewVersion: getStoryById and the draft-of-a-new-version check
PublishNewVersionCall(p, id, notes) ==
  /\ pub[p].pc = "idle"
  /\ IF id \notin DOMAIN stories THEN Finish(p, "publishNewVersion", id, NotFound)
     ELSE IF IsNotNewVersionDraft(stories[id])
     THEN Finish(p, "publishNewVersion", id, NotNewVersionDraft)
     ELSE pub' = [pub EXCEPT ![p] = [Idle EXCEPT !.pc = "validate", !.op = "publishNewVersion",
                                                 !.id = id, !.story = stories[id],
                                                 !.notes = notes]]
  /\ DbUnchanged

\* the publish call goes on whatever the validation says
ValidationPassesAlways(v) == TRUE

\* publishStory, publishNewVersion: validation.isValid
ValidationPasses(v) == v.isValid

\* validateStoryForPublishing as the publish calls use it
Validate(p) ==
  /\ pub[p].pc = "validate"
  /\ IF pub[p].id \notin DOMAIN stories THEN Finish(p, pub[p].op, pub[p].id, NotFound)
     ELSE LET v == ValidateStructure(NodesOf(pub[p].id), choices)
          IN IF ~ValidationPasses(v) THEN Finish(p, pub[p].op, pub[p].id, ValidationFailed(v))
             ELSE pub' = [pub EXCEPT ![p].pc = "snapshot"]
  /\ DbUnchanged

\* StoryService.createStorySnapshot: the story row with its nodes and each
\* node's outgoing choices
StorySnapshot(id) ==
  [story |-> stories[id],
   nodes |-> [i \in DOMAIN NodesOf(id) |->
                [id |-> NodesOf(id)[i].id, isEnding |-> NodesOf(id)[i].isEnding,
                 isStart |-> NodesOf(id)[i].isStart,
                 sourceChoices |-> SourceChoices(choices, NodesOf(id)[i].id)]]]

\* publishNewVersion: metadata.draftVersion || (metadata.currentVersion + 1)
DraftVersionNumber(metadata) ==
  IF Truthy(metadata, "draftVersion") THEN metadata["draftVersion"]
  ELSE IF Has(metadata, "currentVersion") THEN metadata["currentVersion"] + 1
  ELSE NaN

\* createStorySnapshot, and for publishNewVersion the version number
Snapshot(p) ==
  /\ pub[p].pc = "snapshot"
  /\ IF pub[p].id \notin DOMAIN stories THEN Finish(p, pub[p].op, pub[p].id, PublishFailed(pub[p].op))
     ELSE IF pub[p].op = "publishStory"
     THEN pub' = [pub EXCEPT ![p].pc = "latest", ![p].snapshot = StorySnapshot(pub[p].id)]
     ELSE pub' = [pub EXCEPT ![p].pc = "txUpdate", ![p].snapshot = StorySnapshot(pub[p].id),
                             ![p].versionNumber = DraftVersionNumber(pub[p].story.metadata)]
  /\ DbUnchanged

\* publishStory: latestVersion ? latestVersion.versionNumber + 1 : 1
NextVersionNumber(latest) == IF latest # 0 THEN latest + 1 ELSE 1

\* publishStory: getLatestVersion and the next version number
Latest(p) ==
  /\ pub[p].pc = "latest"
  /\ pub' = [pub EXCEPT ![p].pc = "txUpdate",
                        ![p].versionNumber = NextVersionNumber(LatestVersionNumber(pub[p].id))]
  /\ DbUnchanged

\* publishNewVersion writes the metadata as publishStory does
PublishedMetadataKeepingOverlay(op, metadata, versionNumber) ==
  Spread(metadata, "currentVersion" :> versionNumber)

\* the metadata written by tx.story.update
PublishedMetadata(op, metadata, versionNumber) ==
  IF op = "publishStory"
  THEN Spread(metadata, "currentVersion" :> versionNumber)
  ELSE DropKey(Spread(metadata, ("currentVersion" :> versionNumber)
                                @@ ("isEditingNewVersion" :> FALSE)),
               "draftVersion")

\* the stories table as other sessions see it after the update done with the
\* client outside the transaction
UpdateOutsideTx(id, row) == [stories EXCEPT ![id] = row]

\* the stories table as other sessions see it after tx.story.update: the
\* write stays inside the transaction until it commits
UpdateInTx(id, row) == stories

\* prisma.$transaction, first statement: tx.story.update
TxUpdate(p) ==
  /\ pub[p].pc = "txUpdate"
  /\ ~Locked(pub[p].id)
  /\ IF pub[p].id \notin DOMAIN stories
     THEN /\ Finish(p, pub[p].op, pub[p].id, PublishFailed(pub[p].op))
          /\ DbUnchanged
     ELSE /\ now <= MaxClock
          /\ LET row == [stories[pub[p].id] EXCEPT
                           !.status = "PUBLISHED",
                           !.publishedAt = now,
                           !.metadata = PublishedMetadata(pub[p].op, pub[p].story.metadata,
                                                          pub[p].versionNumber)]
             IN /\ pub' = [pub EXCEPT ![p].pc = "txInsert", ![p].pending = row]
                /\ stories' = UpdateInTx(pub[p].id, row)
          /\ now' = now + 1
          /\ UNCHANGED <<usedIds, nodes, nextNodeId, choices, nextChoiceId, versions>>

\* the insert refreshes the snapshots of the story's older versions
InsertVersionRefreshing(vs, row) ==
  [i \in DOMAIN vs |-> IF vs[i].storyId = row.storyId
                       THEN [vs[i] EXCEPT !.snapshot = row.snapshot] ELSE vs[i]]
  \o <<row>>

\* the insert replaces the story's rows by the new one
InsertVersionReplacing(vs, row) ==
  SelectRows(vs, {i \in DOMAIN vs : vs[i].storyId # row.storyId}) \o <<row>>

\* tx.storyVersion.create: the table after the insert
InsertVersion(vs, row) == Append(vs, row)

\* the unique index story_versions_storyId_versionNumber_key accepts the row
UniqueVersion(id, versionNumber) == versionNumber \notin VersionNumbers(id)

VersionNote(op, notes, versionNumber, title) ==
  IF op = "publishStory" THEN [text |-> "Initial publication of", version |-> 0, title |-> title]
  ELSE IF notes # "" THEN [text |-> notes, version |-> 0, title |-> ""]
  ELSE [text |-> "Version", version |-> versionNumber, title |-> title]

\* prisma.$transaction, second statement: tx.storyVersion.create, then commit;
\* a rejected insert rolls the transaction back
TxInsert(p) ==
  /\ pub[p].pc = "txInsert"
  /\ IF pub[p].versionNumber = NaN \/ ~UniqueVersion(pub[p].id, pub[p].versionNumber)
     THEN /\ Finish(p, pub[p].op, pub[p].id, PublishFailed(pub[p].op))
          /\ UNCHANGED <<stories, versions>>
     ELSE /\ stories' = [stories EXCEPT ![pub[p].id] = pub[p].pending]
          /\ versions' = InsertVersion(versions,
                [storyId |-> pub[p].id, versionNumber |-> pub[p].versionNumber,
                 snapshot |-> pub[p].snapshot, publishedAt |-> pub[p].pending.publishedAt,
                 notes |-> VersionNote(pub[p].op, pub[p].notes, pub[p].versionNumber,
                                       pub[p].story.title)])
          /\ Finish(p, pub[p].op, pub[p].id, Published)
  /\ UNCHANGED <<usedIds, nodes, nextNodeId, choices, nextChoiceId, now>>

\* the storage fails during the transaction (connection lost, insert
\* rejected): rollback
TxAbort(p) ==
  /\ pub[p].pc = "txInsert"
  /\ Finish(p, pub[p].op, pub[p].id, PublishFailed(pub[p].op))
  /\ DbUnchanged

\* -------------------------------------------------------------- behaviours
\* the steps of a publish call
PublishSteps(p) ==
  \/ \E id \in StoryIds : PublishStoryCall(p, id)
  \/ \E id \in StoryIds, n \in Notes : PublishNewVersionCall(p, id, n)
  \/ Validate(p)
  \/ Snapshot(p)
  \/ Latest(p)
  \/ TxUpdate(p)
  \/ TxInsert(p)
  \/ TxAbort(p)
  \/ Return(p)

\* request bodies that carry narrative fields only
ContentPayloads == {d \in UpdatePayloads : d.status = "" /\ ~d.hasMetadata}

\* no publish call is in flight
Quiet == \A p \in Pids : pub[p].pc = "idle"

\* the story lifecycle: any sequence of story requests, with any body, and
\* publish calls, each call running to completion before the next request
Next ==
  \/ Quiet /\ \E id \in StoryIds, md \in MetaPayloads : CreateStory(id, "t1", md)
  \/ Quiet /\ \E id \in StoryIds, d \in UpdatePayloads : UpdateStory(id, d)
  \/ Quiet /\ \E id \in StoryIds : ArchiveStory(id)
  \/ Quiet /\ \E id \in StoryIds : DeleteStory(id)
  \/ Quiet /\ \E id \in StoryIds, e \in BOOLEAN, st \in BOOLEAN : CreateNode(id, e, st)
  \/ PublishSteps(1)

Spec == Init /\ [][Next]_vars

\* concurrent publish calls on a story that is being written: every
\* interleaving of the steps of two publish calls and the story requests
ConcNext ==
  \/ \E id \in StoryIds : CreateStory(id, "t1", EmptyMap)
  \/ \E id \in StoryIds, d \in ContentPayloads : UpdateStory(id, d)
  \/ \E id \in StoryIds, e \in BOOLEAN, st \in BOOLEAN : CreateNode(id, e, st)
  \/ \E p \in Pids : PublishSteps(p)

ConcSpec == Init /\ [][ConcNext]_vars

\* the authoring flow: any sequence of node and choice requests, narrative
\* edits of the story and publish calls, each running to completion
EditNext ==
  \/ Quiet /\ \E id \in StoryIds : CreateStory(id, "t1", EmptyMap)
  \/ Quiet /\ \E id \in StoryIds, d \in ContentPayloads : UpdateStory(id, d)
  \/ Quiet /\ \E id \in StoryIds : ArchiveStory(id)
  \/ Quiet /\ \E id \in StoryIds : DeleteStory(id)
  \/ Quiet /\ \E id \in StoryIds, e \in BOOLEAN, st \in BOOLEAN : CreateNode(id, e, st)
  \/ Quiet /\ \E n \in 1..MaxNodes, e \in BOOLEAN, st \in BOOLEAN : UpdateNode(n, e, st)
  \/ Quiet /\ \E n \in 1..MaxNodes : DeleteNode(n)
  \/ Quiet /\ \E a \in 1..MaxNodes, b \in 1..MaxNodes : CreateChoice(a, b)
  \/ Quiet /\ \E c \in 1..MaxChoices, b \in 1..MaxNodes : UpdateChoice(c, b)
  \/ Quiet /\ \E c \in 1..MaxChoices : DeleteChoice(c)
  \/ PublishSteps(1)

EditSpec == Init /\ [][EditNext]_vars

\* metadata maps that carry the version keys a client can write, with the
\* values the code tells apart: draftVersion absent, 0 or positive,
\* currentVersion absent or positive
VersionMetaPayloads ==
  MetaPayloads
  \cup {("isEditingNewVersion" :> TRUE) @@ ("draftVersion" :> 0)}
  \cup {("isEditingNewVersion" :> TRUE) @@ ("currentVersion" :> 1)}
  \cup {("isEditingNewVersion" :> TRUE) @@ ("draftVersion" :> 0) @@ ("currentVersion" :> 1)}

\* request bodies that carry metadata only
VersionPayloads ==
  {[title |-> "", status |-> "", hasMetadata |-> TRUE, metadata |-> m] :
     m \in VersionMetaPayloads}

\* the new-version flow: narrative edits, metadata written by the client and
\* publish calls, each running to completion, on a story whose nodes are
\* each a start and an ending (one node is a valid graph, none or two are not)
VersioningNext ==
  \/ Quiet /\ \E id \in StoryIds : CreateStory(id, "t1", EmptyMap)
  \/ Quiet /\ \E id \in StoryIds, d \in ContentPayloads \cup VersionPayloads : UpdateStory(id, d)
  \/ Quiet /\ \E id \in StoryIds : CreateNode(id, TRUE, TRUE)
  \/ PublishSteps(1)

VersioningSpec == Init /\ [][VersioningNext]_vars

\* node tables of one story with up to GraphNodes nodes, any flags
NodeTables ==
  UNION {{[i \in 1..n |-> [id |-> i, storyId |-> "s1", isEnding |-> f[i][1], isStart |-> f[i][2]]] :
            f \in [1..n -> BOOLEAN \X BOOLEAN]} : n \in 0..GraphNodes}

\* choice tables with up to GraphChoices choices between n nodes: self-loops,
\* parallel choices and cycles included
ChoiceTables(n) ==
  UNION {{[i \in 1..m |-> [id |-> i, sourceNodeId |-> e[i][1], targetNodeId |-> e[i][2]]] :
            e \in [1..m -> (1..n) \X (1..n)]} : m \in 0..GraphChoices}

\* a draft story with any graph
GraphInit ==
  /\ stories = ("s1" :> NoRow)
  /\ usedIds = {"s1"}
  /\ nodes \in NodeTables
  /\ nextNodeId = Len(nodes) + 1
  /\ choices \in ChoiceTables(Len(nodes))
  /\ nextChoiceId = Len(choices) + 1
  /\ versions = <<>>
  /\ now = 1
  /\ pub = [p \in Pids |-> Idle]

\* structure validation requests on the story
GraphNext ==
  \/ \E id \in StoryIds : ValidateStructureCall(1, id)
  \/ BfsStep(1)
  \/ BfsEnd(1)
  \/ Return(1)

GraphSpec == GraphInit /\ [][GraphNext]_vars

\* validation-before-publishing requests on the story
MessageNext ==
  \/ \E id \in StoryIds : ValidateStoryForPublishing(1, id)
  \/ Return(1)

MessageSpec == GraphInit /\ [][MessageNext]_vars

\* the graphs as the traversal sees them: it reads the start flag and the
\* choices, never isEnding
TraversalInit ==
  /\ GraphInit
  /\ \A i \in DOMAIN nodes : ~nodes[i].isEnding

\* the while loop is synchronous code: once started it runs to its end
GraphLiveSpec ==
  TraversalInit /\ [][GraphNext]_vars /\ WF_vars(BfsStep(1)) /\ WF_vars(BfsEnd(1))

\* the authoring flow without the run-to-completion of the publish calls:
\* node and choice requests are served between the steps of a publish call
\* (none of them reads the story's status or waits for the publish call)
AuthoringNext ==
  \/ Quiet /\ \E id \in StoryIds : CreateStory(id, "t1", EmptyMap)
  \/ Quiet /\ \E id \in StoryIds, d \in ContentPayloads : UpdateStory(id, d)
  \/ \E id \in StoryIds, e \in BOOLEAN, st \in BOOLEAN : CreateNode(id, e, st)
  \/ \E n \in 1..MaxNodes, e \in BOOLEAN, st \in BOOLEAN : UpdateNode(n, e, st)
  \/ \E n \in 1..MaxNodes : DeleteNode(n)
  \/ \E a \in 1..MaxNodes, b \in 1..MaxNodes : CreateChoice(a, b)
  \/ \E c \in 1..MaxChoices, b \in 1..MaxNodes : UpdateChoice(c, b)
  \/ \E c \in 1..MaxChoices : DeleteChoice(c)
  \/ PublishSteps(1)

AuthoringSpec == Init /\ [][AuthoringNext]_vars

\* the two stories of one author
LinkStories == {"s1", "s2"}

\* two draft stories, the second with one node (id 0) of any flags
LinkInit ==
  /\ stories = [id \in LinkStories |-> NoRow]
  /\ usedIds = LinkStories
  /\ nodes \in {<<[id |-> 0, storyId |-> "s2", isEnding |-> e, isStart |-> st]>> :
                  e \in BOOLEAN, st \in BOOLEAN}
  /\ nextNodeId = 1
  /\ choices = <<>>
  /\ nextChoiceId = 1
  /\ versions = <<>>
  /\ now = 1
  /\ pub = [p \in Pids |-> Idle]

\* any sequence of node and choice requests on the nodes of the two stories
LinkNext ==
  \/ \E id \in LinkStories, e \in BOOLEAN, st \in BOOLEAN : CreateNode(id, e, st)
  \/ \E n \in 0..MaxNodes : DeleteNode(n)
  \/ \E a \in 0..MaxNodes, b \in 0..MaxNodes : CreateChoice(a, b)
  \/ \E c \in 1..MaxChoices, b \in 0..MaxNodes : UpdateChoice(c, b)
  \/ \E c \in 1..MaxChoices : DeleteChoice(c)

LinkSpec == LinkInit /\ [][LinkNext]_vars

\* ------------------------------------------------------------------ claims
\* process p takes a step out of the given position
Steps(p, pc) == pub[p].pc = pc /\ pub'[p] # pub[p]

\* the errors that are the Conflict of the error taxonomy
Conflicts == {AlreadyPublished, NotNewVersionDraft}

\* StoryVersionService.getStoryVersion(id, n).snapshot, for a version that exists
GetStoryVersion(id, n) ==
  versions[CHOOSE i \in DOMAIN versions :
             versions[i].storyId = id /\ versions[i].versionNumber = n].snapshot

\* C1: a story whose status is PUBLISHED has a StoryVersion whose
\* versionNumber is the story's metadata.currentVersion.
C1_PublishedHasMatchingVersion ==
  \A id \in DOMAIN stories :
    stories[id].status = "PUBLISHED" =>
      /\ Has(stories[id].metadata, "currentVersion")
      /\ stories[id].metadata["currentVersion"] \in VersionNumbers(id)

\* C2: publishStory called on a PUBLISHED story ends at once with the
\* Conflict error "Story is already published" and leaves the story row and
\* the version ledger as they were.
C2_PublishOnPublishedRejected ==
  [][\A p \in Pids :
       (/\ Steps(p, "idle")
        /\ pub'[p].op = "publishStory"
        /\ pub'[p].id \in DOMAIN stories
        /\ stories[pub'[p].id].status = "PUBLISHED")
       => /\ pub'[p].pc = "done"
          /\ pub'[p].result = AlreadyPublished
          /\ pub'[p].result \in Conflicts
          /\ stories' = stories
          /\ versions' = versions]_vars

C2_Witness ==
  \E p \in Pids :
    /\ pub[p].pc = "done"
    /\ pub[p].op = "publishStory"
    /\ pub[p].result = AlreadyPublished
    /\ pub[p].id \in DOMAIN stories
    /\ stories[pub[p].id].status = "PUBLISHED"

\* C3: publishNewVersion called on a story that is not a DRAFT with
\* isEditingNewVersion = true ends at once with a Conflict error, creates no
\* version and leaves the story row as it was.
C3_NewVersionOutsideOverlayRejected ==
  [][\A p \in Pids :
       (/\ Steps(p, "idle")
        /\ pub'[p].op = "publishNewVersion"
        /\ pub'[p].id \in DOMAIN stories
        /\ \/ stories[pub'[p].id].status # "DRAFT"
           \/ ~Has(stories[pub'[p].id].metadata, "isEditingNewVersion")
           \/ stories[pub'[p].id].metadata["isEditingNewVersion"] = FALSE)
       => /\ pub'[p].pc = "done"
          /\ pub'[p].result = NotNewVersionDraft
          /\ pub'[p].result \in Conflicts
          /\ stories' = stories
          /\ versions' = versions]_vars

\* the call was rejected on an archived story that carries the overlay flag
C3_Witness ==
  \E p \in Pids :
    /\ pub[p].pc = "done"
    /\ pub[p].op = "publishNewVersion"
    /\ pub[p].result = NotNewVersionDraft
    /\ pub[p].id \in DOMAIN stories
    /\ stories[pub[p].id].status = "ARCHIVED"
    /\ TruthyFlag(stories[pub[p].id].metadata, "isEditingNewVersion")

\* C4: when the graph fails validateStructure, the publish call (publishStory
\* or publishNewVersion) ends with the validation error that carries the
\* violation summary, and the story row and the ledger are as they were.
C4_InvalidGraphRejected ==
  [][\A p \in Pids :
       (/\ Steps(p, "validate")
        /\ pub[p].id \in DOMAIN stories
        /\ ~ValidateStructure(NodesOf(pub[p].id), choices).isValid)
       => /\ pub'[p].pc = "done"
          /\ pub'[p].result.status = 400
          /\ pub'[p].result.violations =
               ViolationMessage(ValidateStructure(NodesOf(pub[p].id), choices))
          /\ pub'[p].result.violations # <<>>
          /\ stories' = stories
          /\ versions' = versions]_vars

C4_Witness ==
  \E p \in Pids :
    /\ pub[p].pc = "done"
    /\ pub[p].op = "publishNewVersion"
    /\ pub[p].result.violations # <<>>
    /\ pub[p].id \in DOMAIN stories
    /\ stories[pub[p].id].status = "DRAFT"
    /\ TruthyFlag(stories[pub[p].id].metadata, "isEditingNewVersion")

\* C5: a publish is all-or-nothing: while the transaction runs nothing of it
\* is visible, a transaction that fails leaves the story row as the call
\* read it and the ledger as it was, and a step changes the story row if and
\* only if it appends the version.
C5_PublishAllOrNothing ==
  [][\A p \in Pids :
       /\ Steps(p, "txUpdate") => (stories' = stories /\ versions' = versions)
       /\ Steps(p, "txInsert") =>
            IF pub'[p].result = Published
            THEN /\ Len(versions') = Len(versions) + 1
                 /\ stories'[pub[p].id].status = "PUBLISHED"
                 /\ stories'[pub[p].id].metadata["currentVersion"]
                      = versions'[Len(versions')].versionNumber
            ELSE /\ stories' = stories
                 /\ versions' = versions
                 /\ stories'[pub[p].id] = pub[p].story]_vars

\* a transaction has failed and the story is still the draft it was
C5_Witness ==
  \E p \in Pids :
    /\ pub[p].pc = "done"
    /\ pub[p].result.status = 500
    /\ pub[p].id \in DOMAIN stories
    /\ stories[pub[p].id].status = "DRAFT"
    /\ VersionNumbers(pub[p].id) = {}

\* the story's latest publication was made by publishStory
PublishedByPublishStory(id) ==
  /\ stories[id].status = "PUBLISHED"
  /\ \E i \in DOMAIN versions :
       /\ versions[i].storyId = id
       /\ versions[i].publishedAt = stories[id].publishedAt
       /\ versions[i].notes.text = "Initial publication of"

\* C6: of two concurrent publishStory calls on the same story at most one
\* publishes: a publishStory call, which read the story as not published,
\* never commits over the publication another publishStory call has made
\* since.
C6_ConcurrentPublishSerialized ==
  [][\A p \in Pids :
       (/\ Steps(p, "txInsert")
        /\ pub[p].op = "publishStory"
        /\ pub'[p].result = Published)
       => ~PublishedByPublishStory(pub[p].id)]_vars

\* C7: the versionNumbers of a story's versions are strictly increasing in
\* creation order.
C7_VersionNumbersIncrease ==
  \A i \in DOMAIN versions, j \in DOMAIN versions :
    (i < j /\ versions[i].storyId = versions[j].storyId)
      => versions[i].versionNumber < versions[j].versionNumber

\* C8: the versionNumbers of a story's versions are exactly 1..n.
C8_VersionNumbersHaveNoGaps ==
  \A id \in StoryIds : VersionNumbers(id) = 1..Cardinality(VersionNumbers(id))

\* C9: a persisted snapshot never changes: while the story exists, whatever
\* is edited and published later, getStoryVersion(id, n) returns what it
\* returned when version n was created.
C9_SnapshotsAreStable ==
  [][\A id \in DOMAIN stories \cap DOMAIN stories' :
       \A n \in VersionNumbers(id) :
         /\ n \in VersionNumbers(id)'
         /\ GetStoryVersion(id, n)' = GetStoryVersion(id, n)]_vars

\* version 1 from publishStory and version 2 from publishNewVersion exist and
\* hold different graphs
C9_Witness ==
  \E id \in DOMAIN stories :
    /\ {1, 2} \subseteq VersionNumbers(id)
    /\ \E i \in DOMAIN versions, j \in DOMAIN versions :
         /\ i < j
         /\ versions[i].versionNumber = 1
         /\ versions[i].notes.text = "Initial publication of"
         /\ versions[j].versionNumber = 2
         /\ versions[j].notes.text = "Version"
    /\ GetStoryVersion(id, 1).nodes # GetStoryVersion(id, 2).nodes

\* C10 as stated: no operation removes or modifies a StoryVersion row.
C10_LedgerNeverShrinks ==
  [][\A i \in DOMAIN versions :
       i \in DOMAIN versions' /\ versions'[i] = versions[i]]_vars

\* C10 amended: the ledger of a story that exists only grows, its rows kept
\* as they are; deleteStory removes the story's rows with the story.
C10_LedgerGrowsUntilStoryDeleted ==
  [][\A id \in DOMAIN stories :
       IF id \in DOMAIN stories'
       THEN /\ Len(VersionsOf(id)') >= Len(VersionsOf(id))
            /\ SubSeq(VersionsOf(id)', 1, Len(VersionsOf(id))) = VersionsOf(id)
       ELSE VersionsOf(id)' = <<>>]_vars

\* a story with a version was archived and its ledger is still there
C10_Witness ==
  \E id \in DOMAIN stories :
    /\ stories[id].status = "ARCHIVED"
    /\ VersionsOf(id) # <<>>
    /\ nextNodeId > 1

\* C11: ARCHIVED is terminal: no step (updateStory with any body,
\* publishStory, publishNewVersion, archiveStory) takes a story that is
\* ARCHIVED to DRAFT or PUBLISHED.
C11_ArchivedIsTerminal ==
  [][\A id \in DOMAIN stories \cap DOMAIN stories' :
       stories[id].status = "ARCHIVED" => stories'[id].status = "ARCHIVED"]_vars

\* C12: a publishStory call that succeeds appends exactly one StoryVersion,
\* numbered (highest version number of the story, else 0) + 1, sets the
\* status to PUBLISHED and metadata.currentVersion to that number, and leaves
\* the story without the editing overlay, whatever its metadata held.
C12_PublishStoryEffect ==
  [][\A p \in Pids :
       (/\ Steps(p, "txInsert")
        /\ pub[p].op = "publishStory"
        /\ pub'[p].result = Published)
       => LET id == pub[p].id
              n == LatestVersionNumber(id) + 1
          IN /\ Len(versions') = Len(versions) + 1
             /\ SubSeq(versions', 1, Len(versions)) = versions
             /\ versions'[Len(versions')].storyId = id
             /\ versions'[Len(versions')].versionNumber = n
             /\ stories'[id].status = "PUBLISHED"
             /\ stories'[id].metadata["currentVersion"] = n
             /\ ~TruthyFlag(stories'[id].metadata, "isEditingNewVersion")]_vars

\* C13: updateStory with narrative content on a PUBLISHED story moves it to
\* DRAFT with metadata.isEditingNewVersion = true and metadata.draftVersion =
\* metadata.currentVersion + 1, and creates no StoryVersion.
C13_ContentEditOpensOverlay ==
  [][\A id \in DOMAIN stories, d \in UpdatePayloads :
       (/\ UpdateStory(id, d)
        /\ stories[id].status = "PUBLISHED"
        /\ d.title # "")
       => /\ stories'[id].status = "DRAFT"
          /\ TruthyFlag(stories'[id].metadata, "isEditingNewVersion")
          /\ Has(stories[id].metadata, "currentVersion")
          /\ stories'[id].metadata["draftVersion"]
               = stories[id].metadata["currentVersion"] + 1
          /\ versions' = versions]_vars

\* C14: updateStory on a PUBLISHED story with a body of status and/or
\* metadata only does not open the editing overlay: the status and the
\* metadata afterwards are those of the body where it carries them and
\* unchanged where it does not, and no StoryVersion is created.
C14_MetadataEditKeepsPublished ==
  [][\A id \in DOMAIN stories, d \in UpdatePayloads :
       (/\ UpdateStory(id, d)
        /\ stories[id].status = "PUBLISHED"
        /\ d.title = "")
       => /\ stories'[id].status = IF d.status # "" THEN d.status ELSE "PUBLISHED"
          /\ stories'[id].metadata = IF d.hasMetadata THEN d.metadata
                                     ELSE stories[id].metadata
          /\ versions' = versions]_vars

\* a published story with a version took a body of metadata and is still
\* PUBLISHED; its draftVersion is the one of the body
C14_Witness ==
  \E id \in DOMAIN stories :
    /\ stories[id].status = "PUBLISHED"
    /\ VersionsOf(id) # <<>>
    /\ ~Has(stories[id].metadata, "currentVersion")
    /\ Has(stories[id].metadata, "draftVersion")
    /\ stories[id].metadata["draftVersion"] = 1

C16_OverlayOnlyInDraft ==
  \A id \in DOMAIN stories :
    TruthyFlag(stories[id].metadata, "isEditingNewVersion") => stories[id].status = "DRAFT"

\* C17: metadata.currentVersion is the last published version number: a
\* story with at least one StoryVersion has metadata.currentVersion equal to
\* the highest versionNumber of its versions.
C17_CurrentVersionIsLatest ==
  \A id \in DOMAIN stories :
    VersionNumbers(id) # {} =>
      /\ Has(stories[id].metadata, "currentVersion")
      /\ stories[id].metadata["currentVersion"] = LatestVersionNumber(id)

\* a structure validation request has returned its result
ValidationDone(p) ==
  /\ pub[p].pc = "done"
  /\ pub[p].op = "validateStoryStructure"
  /\ pub[p].result = Validated

\* C18: for a story with nodes validateStoryStructure returns isValid = true
\* exactly when a start node exists, an ending node exists and the orphaned,
\* unreachable and dead-end lists are empty; for a story without nodes it
\* returns isValid = false, both flags false and the three lists empty.
C18_IsValidIffAllChecksPass ==
  \A p \in Pids :
    ValidationDone(p) =>
      LET v == pub[p].validation
          ns == pub[p].ns
      IN IF Len(ns) = 0
         THEN /\ v.isValid = FALSE
              /\ v.startNode = FALSE
              /\ v.endingNodes = FALSE
              /\ v.orphanedNodes = <<>>
              /\ v.unreachableNodes = <<>>
              /\ v.deadEnds = <<>>
         ELSE v.isValid <=> /\ \E i \in DOMAIN ns : ns[i].isStart
                            /\ \E i \in DOMAIN ns : ns[i].isEnding
                            /\ v.orphanedNodes = <<>>
                            /\ v.unreachableNodes = <<>>
                            /\ v.deadEnds = <<>>

\* a graph of two nodes was found valid
C18_Witness ==
  \E p \in Pids :
    /\ ValidationDone(p)
    /\ Len(pub[p].ns) = 2
    /\ pub[p].validation.isValid

RECURSIVE ChoiceClosure(_, _)
\* the ids related to an id of S by the reflexive-transitive closure of the
\* choice relation (sourceNodeId to targetNodeId)
ChoiceClosure(S, cs) ==
  LET T == S \cup {cs[i].targetNodeId : i \in {j \in DOMAIN cs : cs[j].sourceNodeId \in S}}
  IN IF T = S THEN S ELSE ChoiceClosure(T, cs)

\* C19: unreachableNodes is exactly the set of nodes outside the
\* reflexive-transitive closure of the choice relation from the start node,
\* so no node of a cycle reachable from the start node is in it; without a
\* start node every node is listed.
C19_UnreachableIsClosureComplement ==
  \A p \in Pids :
    (ValidationDone(p) /\ Len(pub[p].ns) > 0) =>
      LET ns == pub[p].ns
          ids == {ns[i].id : i \in DOMAIN ns}
          listed == {pub[p].validation.unreachableNodes[i] :
                       i \in DOMAIN pub[p].validation.unreachableNodes}
      IN listed = IF StartIndex(ns) = 0 THEN ids
                  ELSE ids \ ChoiceClosure({ns[StartIndex(ns)].id}, pub[p].cs)

\* the start node is on a cycle through the other node and nothing is listed
C19_Witness ==
  \E p \in Pids :
    /\ ValidationDone(p)
    /\ Len(pub[p].ns) = 2
    /\ StartIndex(pub[p].ns) = 1
    /\ \E i \in DOMAIN pub[p].cs, j \in DOMAIN pub[p].cs :
         /\ pub[p].cs[i].sourceNodeId = 1 /\ pub[p].cs[i].targetNodeId = 2
         /\ pub[p].cs[j].sourceNodeId = 2 /\ pub[p].cs[j].targetNodeId = 1
    /\ pub[p].validation.unreachableNodes = <<>>

\* C20: the traversal terminates on every graph, cycles, self-loops and
\* parallel choices included: no node id is put on the queue twice, and a
\* traversal that has started reaches its end.
C20_TraversalTerminates ==
  /\ [](\A p \in Pids : \A i \in DOMAIN pub[p].enqueued, j \in DOMAIN pub[p].enqueued :
          i # j => pub[p].enqueued[i] # pub[p].enqueued[j])
  /\ \A p \in Pids : (pub[p].pc = "bfs") ~> (pub[p].pc = "done")

\* the traversal has ended on a graph with two parallel choices from the
\* start node to the other node, which was queued once
C20_Witness ==
  \E p \in Pids :
    /\ ValidationDone(p)
    /\ Len(pub[p].cs) = 2
    /\ \A i \in DOMAIN pub[p].cs :
         pub[p].cs[i].sourceNodeId = 1 /\ pub[p].cs[i].targetNodeId = 2
    /\ pub[p].enqueued = <<1, 2>>

\* C21: for every graph, orphanedNodes is exactly the list of the nodes with
\* no incoming choice other than the start node (the first node flagged
\* isStart, where the traversal begins), in the order of the input nodes.
C21_OrphansAreNodesWithoutIncoming ==
  \A p \in Pids :
    ValidationDone(p) =>
      LET ns == pub[p].ns
          cs == pub[p].cs
      IN pub[p].validation.orphanedNodes =
           SeqFilterIds(ns, {ns[i].id : i \in {j \in DOMAIN ns :
              /\ \A k \in DOMAIN cs : cs[k].targetNodeId # ns[j].id
              /\ j # StartIndex(ns)}})

\* a validation-before-publishing request has returned its answer
ForPublishingDone(p) ==
  /\ pub[p].pc = "done"
  /\ pub[p].op = "validateStoryForPublishing"
  /\ pub[p].result.status = 200

\* the message names the check
Names(msg, check) == \E i \in DOMAIN msg : msg[i].check = check

\* the message reports the count n for the check, once, or nothing when n = 0
Reports(msg, check, n) ==
  /\ Names(msg, check) <=> n > 0
  /\ \A i \in DOMAIN msg : msg[i].check = check => msg[i].count = n
  /\ \A i \in DOMAIN msg, j \in DOMAIN msg :
       (msg[i].check = check /\ msg[j].check = check) => i = j

\* C22: when validation fails, the message of validateStoryForPublishing
\* enumerates every failed check and only failed checks: the missing start
\* node iff no start node exists, the missing ending nodes iff no ending node
\* exists, and the orphaned, unreachable and dead-end counts iff the list is
\* not empty, each count being the length of the list.
C22_MessageEnumeratesFailedChecks ==
  \A p \in Pids :
    (ForPublishingDone(p) /\ ~pub[p].validation.isValid) =>
      LET msg == pub[p].result.violations
          v == pub[p].validation
          ns == pub[p].ns
      IN /\ Names(msg, "Missing start node") <=> ~\E i \in DOMAIN ns : ns[i].isStart
         /\ Names(msg, "Missing ending nodes") <=> ~\E i \in DOMAIN ns : ns[i].isEnding
         /\ Reports(msg, "orphaned nodes", Len(v.orphanedNodes))
         /\ Reports(msg, "unreachable nodes", Len(v.unreachableNodes))
         /\ Reports(msg, "dead ends", Len(v.deadEnds))
         /\ \A i \in DOMAIN msg :
              msg[i].check \in {"Missing start node", "Missing ending nodes",
                                "orphaned nodes", "unreachable nodes", "dead ends"}
         /\ \A i \in DOMAIN msg, j \in DOMAIN msg : msg[i].check = msg[j].check => i = j

\* a failed validation whose message reports one orphaned node and two dead
\* ends and does not name the start node
C22_Witness ==
  \E p \in Pids :
    /\ ForPublishingDone(p)
    /\ ~pub[p].validation.isValid
    /\ \E i \in DOMAIN pub[p].result.violations :
         /\ pub[p].result.violations[i].check = "dead ends"
         /\ pub[p].result.violations[i].count = 2
    /\ \E i \in DOMAIN pub[p].result.violations :
         /\ pub[p].result.violations[i].check = "orphaned nodes"
         /\ pub[p].result.violations[i].count = 1
    /\ ~Names(pub[p].result.violations, "Missing start node")

\* C23: after any sequence of createNode, deleteNode, createChoice,
\* updateChoice and deleteChoice requests every stored choice's sourceNodeId
\* and targetNodeId refer to existing nodes of one and the same story, and
\* deleting a node removes every choice that has it as source or target.
C23_ChoicesLinkNodesOfOneStory ==
  /\ [](\A i \in DOMAIN choices :
          /\ NodeExists(choices[i].sourceNodeId)
          /\ NodeExists(choices[i].targetNodeId)
          /\ NodeRow(choices[i].sourceNodeId).storyId = NodeRow(choices[i].targetNodeId).storyId)
  /\ [][\A n \in 0..MaxNodes :
          DeleteNode(n) => \A i \in DOMAIN choices' :
                             choices'[i].sourceNodeId # n /\ choices'[i].targetNodeId # n]_vars

\* a choice is stored while nodes of both stories exist
C23_Witness ==
  /\ choices # <<>>
  /\ \E i \in DOMAIN nodes, j \in DOMAIN nodes : nodes[i].storyId # nodes[j].storyId

\* C24: getLatestVersion returns null for a story without versions and
\* otherwise the version with the highest versionNumber of the story;
\* immediately after a successful publishStory or publishNewVersion it
\* returns the version that call created.
C24_LatestIsTheVersionJustCreated ==
  /\ [](\A id \in StoryIds :
          IF VersionNumbers(id) = {} THEN LatestVersionNumber(id) = 0
          ELSE /\ LatestVersionNumber(id) \in VersionNumbers(id)
               /\ \A m \in VersionNumbers(id) : m <= LatestVersionNumber(id))
  /\ [][\A p \in Pids, id \in StoryIds :
          (TxInsert(p) /\ pub[p].id = id /\ pub'[p].result = Published)
            => LatestVersionNumber(id)' = pub[p].versionNumber]_vars

\* C25: publication is gated by validation: every step in which a story's
\* status changes from DRAFT or ARCHIVED to PUBLISHED is the commit of a
\* successful publishStory or publishNewVersion on a graph that passes
\* validateStructure; no other operation sets status to PUBLISHED.
C25_PublicationGatedByValidation ==
  [][\A id \in StoryIds :
       (/\ id \in DOMAIN stories
        /\ id \in DOMAIN stories'
        /\ stories[id].status \in {"DRAFT", "ARCHIVED"}
        /\ stories'[id].status = "PUBLISHED")
       => /\ \E p \in Pids : /\ TxInsert(p)
                             /\ pub[p].id = id
                             /\ pub[p].op \in {"publishStory", "publishNewVersion"}
                             /\ pub'[p].result = Published
          /\ ValidateStructure(NodesOf(id), choices).isValid]_vars

RECURSIVE SnapshotChoices(_)
\* the choices of a snapshot: the sourceChoices of its nodes, node by node
SnapshotChoices(ns) ==
  IF ns = <<>> THEN <<>> ELSE Head(ns).sourceChoices \o SnapshotChoices(Tail(ns))

\* C26: every persisted snapshot holds a graph that passes validateStructure,
\* also when node and choice requests on the story are served between the
\* steps of the publish call: the graph that was validated is the graph that
\* is frozen.
C26_SnapshotsHoldValidGraphs ==
  \A i \in DOMAIN versions :
    ValidateStructure(versions[i].snapshot.nodes,
                      SnapshotChoices(versions[i].snapshot.nodes)).isValid

\* C27: while a story's status is PUBLISHED its live nodes and choices equal
\* those of the snapshot of its latest version; node and choice create,
\* update and delete requests on a PUBLISHED story are rejected or move the
\* story out of PUBLISHED.
C27_PublishedGraphIsFrozen ==
  /\ [](\A id \in DOMAIN stories :
          stories[id].status = "PUBLISHED" =>
            \E i \in DOMAIN versions :
              /\ versions[i].storyId = id
              /\ versions[i].versionNumber = LatestVersionNumber(id)
              /\ versions[i].snapshot.nodes = StorySnapshot(id).nodes)
  /\ [][\A id \in StoryIds :
          (/\ id \in DOMAIN stories
           /\ id \in DOMAIN stories'
           /\ stories[id].status = "PUBLISHED"
           /\ stories'[id].status = "PUBLISHED")
          => (nodes' = nodes /\ choices' = choices)]_vars

\* C28: a story in the editing overlay can always be published: in every
\* state reached through updateStory, archiveStory, publishStory and
\* publishNewVersion in which status = DRAFT, isEditingNewVersion = true and
\* the graph is valid, the version number publishNewVersion chooses is
\* greater than every versionNumber in the story's ledger, so the insert is
\* not rejected.
C28_OverlayDraftIsPublishable ==
  \A id \in DOMAIN stories :
    (/\ stories[id].status = "DRAFT"
     /\ TruthyFlag(stories[id].metadata, "isEditingNewVersion")
     /\ ValidateStructure(NodesOf(id), choices).isValid)
    => /\ DraftVersionNumber(stories[id].metadata) # NaN
       /\ \A n \in VersionNumbers(id) : n < DraftVersionNumber(stories[id].metadata)

\* the ids a list of the validation result holds
Listed(list) == {list[i] : i \in DOMAIN list}

\* C29: for every graph whose choices connect nodes of the input set, every
\* node listed in orphanedNodes is also listed in unreachableNodes, whether
\* or not a start node exists.
C29_OrphanedAreUnreachable ==
  \A p \in Pids :
    ValidationDone(p) =>
      Listed(pub[p].validation.orphanedNodes) \subseteq Listed(pub[p].validation.unreachableNodes)

\* a graph with a start node and a choice in which a node is orphaned and is
\* the one unreachable node
C29_Witness ==
  \E p \in Pids :
    /\ ValidationDone(p)
    /\ pub[p].validation.startNode
    /\ pub[p].validation.orphanedNodes # <<>>
    /\ Len(pub[p].validation.unreachableNodes) = 1
    /\ pub[p].cs # <<>>

\* C30: a graph certified by validateStoryStructure is playable to an end:
\* whenever isValid = true, from every node of the story at least one ending
\* node is reachable by following choices.
C30_ValidGraphsReachAnEnding ==
  \A p \in Pids :
    (ValidationDone(p) /\ pub[p].validation.isValid) =>
      \A i \in DOMAIN pub[p].ns :
        \E e \in DOMAIN pub[p].ns :
          /\ pub[p].ns[e].isEnding
          /\ pub[p].ns[e].id \in ChoiceClosure({pub[p].ns[i].id}, pub[p].cs)

====
